---- MODULE Spec2Model ----
(***************************************************************************)
(* zsnap: create a dated ZFS snapshot per dataset and prune the snapshots  *)
(* older than a retention window (src/zsnap.py).                           *)
(*                                                                         *)
(* Strings are sequences of one-character strings, so that strip, split,   *)
(* isoformat, fromisoformat and string comparison are real computations.   *)
(* Dates are records [year, month, day], compared as Python compares them. *)
(***************************************************************************)
EXTENDS Integers, Sequences, FiniteSets, TLC

(***************************************************************************)
(* Bounds of the model                                                     *)
(***************************************************************************)
MaxDatasets == 2     \* length of the --datasets list
MaxSnaps == 2        \* snapshots a dataset holds when the run starts
MaxRetention == 2    \* |--retention-days|
MaxAge == 3          \* age, in days, of the oldest snapshot on the host
MaxLines == 3        \* lines of a listing given to the pure functions

(***************************************************************************)
(* Characters and strings                                                  *)
(***************************************************************************)
\* the characters of the model, in code point order
Alphabet == <<" ", "-", "0", "1", "2", "3", "4", "5", "6", "7", "8", "9", "@", "a", "b", "x">>

Ord(c) == CHOOSE k \in 1..Len(Alphabet) : Alphabet[k] = c

DigitChars == <<"0", "1", "2", "3", "4", "5", "6", "7", "8", "9">>

IsDigit(c) == \E k \in 1..10 : DigitChars[k] = c

DigitVal(c) == (CHOOSE k \in 1..10 : DigitChars[k] = c) - 1

\* str < str: lexicographic by code point, a proper prefix is smaller
RECURSIVE StrLT(_, _)
StrLT(s, t) ==
    IF t = <<>> THEN FALSE
    ELSE IF s = <<>> THEN TRUE
    ELSE IF Head(s) = Head(t) THEN StrLT(Tail(s), Tail(t))
    ELSE Ord(Head(s)) < Ord(Head(t))

IsSpace(c) == c = " "

RECURSIVE lstrip(_)
lstrip(s) == IF s # <<>> /\ IsSpace(Head(s)) THEN lstrip(Tail(s)) ELSE s

RECURSIVE rstrip(_)
rstrip(s) ==
    IF s # <<>> /\ IsSpace(s[Len(s)]) THEN rstrip(SubSeq(s, 1, Len(s) - 1)) ELSE s

\* str.strip()
strip(s) == rstrip(lstrip(s))

\* index of the first "@" of s, 0 when there is none
FirstAt(s) ==
    IF \E k \in 1..Len(s) : s[k] = "@"
    THEN CHOOSE k \in 1..Len(s) : s[k] = "@" /\ \A h \in 1..(k - 1) : s[h] # "@"
    ELSE 0

\* str.split('@', 1)
split_at(s) ==
    IF FirstAt(s) = 0 THEN <<s>>
    ELSE <<SubSeq(s, 1, FirstAt(s) - 1), SubSeq(s, FirstAt(s) + 1, Len(s))>>

(***************************************************************************)
(* Calendar dates (datetime.date)                                          *)
(***************************************************************************)
MINYEAR == 1
MAXYEAR == 9999

Date(y, m, d) == [year |-> y, month |-> m, day |-> d]

is_leap(y) == y % 4 = 0 /\ (y % 100 # 0 \/ y % 400 = 0)

DAYS_IN_MONTH == <<31, 28, 31, 30, 31, 30, 31, 31, 30, 31, 30, 31>>

days_in_month(y, m) == IF m = 2 /\ is_leap(y) THEN 29 ELSE DAYS_IN_MONTH[m]

RECURSIVE days_before_month(_, _)
days_before_month(y, m) ==
    IF m = 1 THEN 0 ELSE days_before_month(y, m - 1) + days_in_month(y, m - 1)

days_before_year(y) ==
    (y - 1) * 365 + ((y - 1) \div 4) - ((y - 1) \div 100) + ((y - 1) \div 400)

\* date.toordinal()
toordinal(d) == days_before_year(d.year) + days_before_month(d.year, d.month) + d.day

DI400Y == days_before_year(401)

DI100Y == days_before_year(101)

DI4Y == days_before_year(5)

\* date.fromordinal(n), as datetime._ord2ymd computes it
fromordinal(n) ==
    LET n0 == n - 1
        n400 == n0 \div DI400Y
        r400 == n0 % DI400Y
        n100 == r400 \div DI100Y
        r100 == r400 % DI100Y
        n4 == r100 \div DI4Y
        r4 == r100 % DI4Y
        n1 == r4 \div 365
        r1 == r4 % 365
        year == n400 * 400 + 1 + n100 * 100 + n4 * 4 + n1
        leapyear == n1 = 3 /\ (n4 # 24 \/ n100 = 3)
        month0 == (r1 + 50) \div 32
        preceding0 == days_before_month(IF leapyear THEN 4 ELSE 1, month0)
        month == IF preceding0 > r1 THEN month0 - 1 ELSE month0
        preceding == days_before_month(IF leapyear THEN 4 ELSE 1, month)
    IN  IF n1 = 4 \/ n100 = 4
        THEN Date(year - 1, 12, 31)
        ELSE Date(year, month, r1 - preceding + 1)

\* date < date
DateLT(a, b) ==
    \/ a.year < b.year
    \/ a.year = b.year /\ a.month < b.month
    \/ a.year = b.year /\ a.month = b.month /\ a.day < b.day

\* two digits only when the number needs them
Pad2_unpadded(n) ==
    IF n < 10 THEN <<DigitChars[n + 1]>>
    ELSE <<DigitChars[((n \div 10) % 10) + 1], DigitChars[(n % 10) + 1]>>

\* %02d
Pad2(n) == <<DigitChars[((n \div 10) % 10) + 1], DigitChars[(n % 10) + 1]>>

Pad4(n) == Pad2(n \div 100) \o Pad2(n % 100)

\* date.isoformat(): YYYY-MM-DD
isoformat(d) == Pad4(d.year) \o <<"-">> \o Pad2(d.month) \o <<"-">> \o Pad2(d.day)

Num(s) ==
    IF Len(s) = 4
    THEN DigitVal(s[1]) * 1000 + DigitVal(s[2]) * 100 + DigitVal(s[3]) * 10 + DigitVal(s[4])
    ELSE DigitVal(s[1]) * 10 + DigitVal(s[2])

\* date.fromisoformat(s): [ok |-> FALSE] stands for ValueError
fromisoformat(s) ==
    IF /\ Len(s) = 10
       /\ s[5] = "-"
       /\ s[8] = "-"
       /\ \A k \in {1, 2, 3, 4, 6, 7, 9, 10} : IsDigit(s[k])
    THEN LET y == Num(SubSeq(s, 1, 4))
             m == Num(SubSeq(s, 6, 7))
             d == Num(SubSeq(s, 9, 10))
         IN  IF /\ MINYEAR <= y /\ y <= MAXYEAR
                /\ 1 <= m /\ m <= 12
                /\ 1 <= d /\ d <= days_in_month(y, m)
             THEN [ok |-> TRUE, value |-> Date(y, m, d)]
             ELSE [ok |-> FALSE, value |-> Date(0, 0, 0)]
    ELSE [ok |-> FALSE, value |-> Date(0, 0, 0)]

(***************************************************************************)
(* zsnap.py: constants and pure functions                                  *)
(***************************************************************************)
ZFS_GET_DATASET == <<"zfs", "list", "-H", "-t", "filesystem", "-o", "name">>

ZFS_LS_SNAP == <<"zfs", "list", "-H", "-t", "snapshot", "-o", "name", "-s", "creation">>

ZFS_TAKE_SNAP == <<"zfs", "snapshot">>

ZFS_DESTROY == <<"zfs", "destroy", "-n">>

\* the probe of has_zfs
ZFS_VERSION == <<"zfs", "version">>

\* the value of a function that returned without a return statement
None == <<>>

abs(n) == IF n < 0 THEN -n ELSE n

\* get_cutoff_date without abs(): a negative value moves the cutoff forward
get_cutoff_date_signed(today_, retention_days) ==
    fromordinal(toordinal(today_) - retention_days)

\* get_cutoff_date, with the module-level today as a parameter
get_cutoff_date(today_, retention_days) ==
    fromordinal(toordinal(today_) - abs(retention_days))

\* the greatest number of days a timedelta holds
MAX_DELTA_DAYS == 999999999

\* get_cutoff_date raises OverflowError: timedelta(days=...) is out of range,
\* or the difference is a day before date.min
get_cutoff_date_raises(today_, retention_days) ==
    \/ abs(retention_days) > MAX_DELTA_DAYS
    \/ toordinal(today_) - abs(retention_days) < toordinal(Date(MINYEAR, 1, 1))

\* parse_snap_name: the pair (date, snap), or None after a ValueError
parse_snap_name(snap) ==
    LET parts == split_at(snap)
    IN  IF Len(parts) # 2 THEN None
        ELSE LET parsed == fromisoformat(parts[2])
             IN  IF parsed.ok THEN <<parsed.value, snap>> ELSE None

\* (date, str) < (date, str), the order of tuples
SnapLT(p, q) == DateLT(p[1], q[1]) \/ (p[1] = q[1] /\ StrLT(p[2], q[2]))

\* insert p into the sorted sequence s, after the elements not greater
RECURSIVE Insert(_, _)
Insert(p, s) ==
    IF s = <<>> THEN <<p>>
    ELSE IF SnapLT(p, Head(s)) THEN <<p>> \o s
    ELSE <<Head(s)>> \o Insert(p, Tail(s))

\* sorted() left out: the lines in the order of the listing
sorted_skipped(s) == s

\* sorted(): a stable ascending sort
RECURSIVE sorted(_)
sorted(s) ==
    IF s = <<>> THEN <<>> ELSE Insert(s[Len(s)], sorted(SubSeq(s, 1, Len(s) - 1)))

\* filter(None, (parse_snap_name(snap) for snap in snapshot_names))
RECURSIVE parse_lines(_)
parse_lines(snapshot_names) ==
    IF snapshot_names = <<>> THEN <<>>
    ELSE LET p == parse_snap_name(Head(snapshot_names))
         IN  (IF p = None THEN <<>> ELSE <<p>>) \o parse_lines(Tail(snapshot_names))

\* get_all_snaps, given the lines of the listing
parsed_snaps(snapshot_names) == sorted(parse_lines(snapshot_names))

\* a filter that keeps every snapshot
filter_older_snaps_all(snap_list_, cutoff) == snap_list_

\* filter_older_snaps with <= in place of <
RECURSIVE filter_older_snaps_inclusive(_, _)
filter_older_snaps_inclusive(snap_list_, cutoff) ==
    IF snap_list_ = <<>> THEN <<>>
    ELSE (IF ~DateLT(cutoff, Head(snap_list_)[1]) THEN <<Head(snap_list_)>> ELSE <<>>)
         \o filter_older_snaps_inclusive(Tail(snap_list_), cutoff)

\* filter_older_snaps
RECURSIVE filter_older_snaps(_, _)
filter_older_snaps(snap_list_, cutoff) ==
    IF snap_list_ = <<>> THEN <<>>
    ELSE (IF DateLT(Head(snap_list_)[1], cutoff) THEN <<Head(snap_list_)>> ELSE <<>>)
         \o filter_older_snaps(Tail(snap_list_), cutoff)

\* a name dated the day before today
new_snap_name_yesterday(dataset, today_) ==
    strip(dataset) \o <<"@">> \o isoformat(fromordinal(toordinal(today_) - 1))

\* the name create_snap builds
new_snap_name(dataset, today_) == strip(dataset) \o <<"@">> \o isoformat(today_)

\* the value create_snap returns (line 102)
create_snap_result(dataset, today_) == <<today_, new_snap_name(dataset, today_)>>

\* run_cmd that never looks at dry_run
run_cmd_always(zfscmd, target, dry, res) ==
    [cmd |-> zfscmd, target |-> target, invoked |-> TRUE, ok |-> res.ok,
     stdout |-> IF res.ok THEN res.stdout ELSE <<>>]

\* run_cmd that short-circuits a dry run except for the read-only listing
run_cmd_list_for_real(zfscmd, target, dry, res) ==
    IF dry /\ zfscmd # ZFS_LS_SNAP
    THEN [cmd |-> zfscmd, target |-> target, invoked |-> FALSE, ok |-> TRUE, stdout |-> <<>>]
    ELSE [cmd |-> zfscmd, target |-> target, invoked |-> TRUE, ok |-> res.ok,
          stdout |-> IF res.ok THEN res.stdout ELSE <<>>]

\* run_cmd: res is what the external tool answers when it is invoked
run_cmd(zfscmd, target, dry, res) ==
    IF dry
    THEN [cmd |-> zfscmd, target |-> target, invoked |-> FALSE, ok |-> TRUE, stdout |-> <<>>]
    ELSE [cmd |-> zfscmd, target |-> target, invoked |-> TRUE, ok |-> res.ok,
          stdout |-> IF res.ok THEN res.stdout ELSE <<>>]

\* all(datasets)
all_nonempty(ds) == \A k \in 1..Len(ds) : ds[k] # <<>>

\* the dataset names taken as given, not stripped
map_strip_skipped(ds) == ds

\* tuple(map(str.strip, args.datasets))
RECURSIVE map_strip(_)
map_strip(ds) == IF ds = <<>> THEN <<>> ELSE <<strip(Head(ds))>> \o map_strip(Tail(ds))

(***************************************************************************)
(* The external tool                                                       *)
(***************************************************************************)
\* the dataset a snapshot identifier belongs to
DatasetOf(snap) == split_at(snap)[1]

\* the snapshots of the host after a successful invocation
ZfsEffect(zfscmd, target, snaps) ==
    IF zfscmd = ZFS_TAKE_SNAP THEN snaps \cup {target}
    ELSE IF zfscmd[1] = "zfs" /\ zfscmd[2] = "destroy"
    THEN IF \E k \in 1..Len(zfscmd) : zfscmd[k] = "-n" THEN snaps ELSE snaps \ {target}
    ELSE snaps

\* the sequences that list every element of the set S once
RECURSIVE Orderings(_)
Orderings(S) ==
    IF S = {} THEN {<<>>}
    ELSE UNION {{<<x>> \o t : t \in Orderings(S \ {x})} : x \in S}

\* what zfs list can print for a dataset
Listings(dataset, snaps) == Orderings({s \in snaps : DatasetOf(s) = dataset})

(***************************************************************************)
(* State of one run of main                                                *)
(***************************************************************************)
VARIABLES
    pc,              \* the statement main is about to execute
    exit_code,       \* the exit status once pc = "exit"
    args,            \* parsed command line: datasets, retention_days, dry_run
    today,           \* module-level today
    host,            \* the snapshot identifiers that exist on the host
    calls,           \* every has_zfs / run_cmd call made so far, in order
    datasets,        \* main: the stripped dataset names
    i,               \* main: index of the dataset of the current loop
    dry_run,         \* main: dry_run
    cutoff_date,     \* main: cutoff_date
    snapshot_names,  \* get_all_snaps: the lines of the listing
    snap_list,       \* main: snap_list
    old_snaps,       \* main: old_snaps
    j                \* remove_snaps: index of the snapshot to destroy next

vars == <<pc, exit_code, args, today, host, calls, datasets, i, dry_run,
          cutoff_date, snapshot_names, snap_list, old_snaps, j>>

\* the values date.today() takes in the model
TodaySet == {Date(2026, 3, 1), Date(2024, 3, 2)}

\* the dataset names of the command line, before stripping
RawNames == {<<"a">>, <<" ", "b">>, <<>>, <<" ">>}

\* a retention that reaches back beyond date.min
FarRetention == 739676

RetentionSet == (-MaxRetention)..MaxRetention \cup {FarRetention}

\* today minus k days
DaysAgo(t, k) == fromordinal(toordinal(t) - k)

\* the names a snapshot of dataset d can have on the host: dated ones, one
\* that carries no date and one whose date does not exist
HostNames(d, t) ==
    {d \o <<"@">> \o isoformat(DaysAgo(t, k)) : k \in 0..MaxAge}
    \cup {d \o <<"@", "x">>, d \o <<"@", "2", "0", "2", "6", "-", "0", "2", "-", "2", "9">>}

SmallSubsets(S) == {T \in SUBSET S : Cardinality(T) <= MaxSnaps}

ArgLists == UNION {[1..n -> RawNames] : n \in 1..MaxDatasets}

\* the loop body with the old snapshots removed before the new one is taken
LoopBody_remove_first == <<"get_all_snaps", "filter_older_snaps", "remove_snaps", "create_snap">>

\* the loop body with the snapshot taken before the listing
LoopBody_create_first == <<"create_snap", "get_all_snaps", "filter_older_snaps", "remove_snaps">>

\* the statements of the loop body of main, in program order
LoopBody == <<"get_all_snaps", "filter_older_snaps", "create_snap", "remove_snaps">>

\* the statement that follows step in the loop body
StepAfter(step) ==
    LET k == CHOOSE n \in 1..Len(LoopBody) : LoopBody[n] = step
    IN  IF k < Len(LoopBody) THEN LoopBody[k + 1] ELSE "next_dataset"

\* what the external tool can answer to a command
ToolAnswers(zfscmd, target, snaps) ==
    {[ok |-> FALSE, stdout |-> <<>>]}
    \cup {[ok |-> TRUE, stdout |-> out] :
            out \in IF zfscmd = ZFS_LS_SNAP THEN Listings(target, snaps) ELSE {<<>>}}

\* the values of the locals of main before their first assignment
InitLocals ==
    /\ datasets = <<>>
    /\ i = 1
    /\ dry_run = FALSE
    /\ cutoff_date = today
    /\ snapshot_names = <<>>
    /\ snap_list = <<>>
    /\ old_snaps = <<>>
    /\ j = 1

Init ==
    /\ pc = "has_zfs"
    /\ exit_code = 0
    /\ today \in TodaySet
    /\ args \in [datasets : ArgLists, retention_days : RetentionSet, dry_run : BOOLEAN]
    /\ \E ha \in SmallSubsets(HostNames(<<"a">>, today)),
          hb \in SmallSubsets(HostNames(<<"b">>, today)) :
         /\ host = ha \cup hb
         /\ \A s \in host : \E k \in 1..Len(args.datasets) :
                DatasetOf(s) = strip(args.datasets[k])
    /\ calls = <<>>
    /\ InitLocals

\* the snapshots of the host after the call r
HostAfter(r, snaps) ==
    IF r.invoked /\ r.ok THEN ZfsEffect(r.cmd, r.target, snaps) ELSE snaps

\* an except clause that logs the error and carries on
OnError_carry_on(ok, nextpc) == nextpc

\* raise SystemExit(err) in the except clause of a caller of run_cmd:
\* the statement executed after a call that succeeded (ok) or failed
OnError(ok, nextpc) == IF ok THEN nextpc ELSE "exit"

\* a missing dataset is logged and the loop goes on to the next one
HasDatasetNext_skip(found, k, n) == IF k < n THEN "has_dataset" ELSE "setup"

\* main, lines 164-167: the statement after has_dataset for dataset k of n
HasDatasetNext(found, k, n) ==
    IF ~found THEN "exit"
    ELSE IF k < n THEN "has_dataset"
    ELSE "setup"

\* an abort that leaves the exit status alone
ExitCode_unset(nextpc, code) == code

\* the exit status: raise SystemExit(1) and raise SystemExit(err) both give 1
ExitCode(nextpc, code) == IF nextpc = "exit" THEN 1 ELSE code

\* main goes on although the probe failed
HasZfsNext_ignored(ok) == "parse_args"

\* main, lines 128-130: the statement after has_zfs()
HasZfsNext(ok) == IF ok THEN "parse_args" ELSE "exit"

\* has_zfs and main, lines 128-130
HasZfs ==
    /\ pc = "has_zfs"
    /\ \E res \in ToolAnswers(ZFS_VERSION, <<>>, host) :
         LET r == [cmd |-> ZFS_VERSION, target |-> <<>>, invoked |-> TRUE,
                   ok |-> res.ok, stdout |-> <<>>]
         IN  /\ calls' = Append(calls, r)
             /\ host' = HostAfter(r, host)
             /\ pc' = HasZfsNext(r.ok)
    /\ exit_code' = ExitCode(pc', exit_code)
    /\ UNCHANGED <<args, today, datasets, i, dry_run, cutoff_date,
                   snapshot_names, snap_list, old_snaps, j>>

\* main, lines 155-162
ParseArgs ==
    /\ pc = "parse_args"
    /\ datasets' = map_strip(args.datasets)
    /\ pc' = IF all_nonempty(datasets') THEN "has_dataset" ELSE "exit"
    /\ exit_code' = ExitCode(pc', exit_code)
    /\ i' = 1
    /\ UNCHANGED <<args, today, host, calls, dry_run, cutoff_date,
                   snapshot_names, snap_list, old_snaps, j>>

\* the loops over the datasets walked from the last one to the first
loop_item_reversed(ds, k) == ds[Len(ds) + 1 - k]

\* for ds in datasets (lines 164 and 176): the item of turn k
loop_item(ds, k) == ds[k]

\* has_dataset: the call it makes
has_dataset(dataset, dry, res) == run_cmd(ZFS_GET_DATASET, strip(dataset), dry, res)

\* main, lines 164-167: has_dataset(ds) with the default dry_run
HasDataset ==
    /\ pc = "has_dataset"
    /\ \E res \in ToolAnswers(ZFS_GET_DATASET, strip(loop_item(datasets, i)), host) :
         LET r == has_dataset(loop_item(datasets, i), FALSE, res)
         IN  /\ calls' = Append(calls, r)
             /\ host' = HostAfter(r, host)
             /\ pc' = HasDatasetNext(r.ok, i, Len(datasets))
    /\ i' = IF pc' = "has_dataset" THEN i + 1 ELSE i
    /\ exit_code' = ExitCode(pc', exit_code)
    /\ UNCHANGED <<args, today, datasets, dry_run, cutoff_date,
                   snapshot_names, snap_list, old_snaps, j>>

\* main, lines 169-176; an OverflowError of get_cutoff_date is not caught
\* and ends the run with a traceback and status 1
Setup ==
    /\ pc = "setup"
    /\ dry_run' = args.dry_run
    /\ IF get_cutoff_date_raises(today, args.retention_days)
       THEN /\ pc' = "exit"
            /\ UNCHANGED cutoff_date
       ELSE /\ pc' = LoopBody[1]
            /\ cutoff_date' = get_cutoff_date(today, args.retention_days)
    /\ exit_code' = ExitCode(pc', exit_code)
    /\ i' = 1
    /\ j' = 1
    /\ UNCHANGED <<args, today, host, calls, datasets,
                   snapshot_names, snap_list, old_snaps>>

\* get_all_snaps, lines 55-63
GetAllSnaps ==
    /\ pc = "get_all_snaps"
    /\ \E res \in ToolAnswers(ZFS_LS_SNAP, strip(loop_item(datasets, i)), host) :
         LET r == run_cmd(ZFS_LS_SNAP, strip(loop_item(datasets, i)), dry_run, res)
         IN  /\ calls' = Append(calls, r)
             /\ host' = HostAfter(r, host)
             /\ snapshot_names' = r.stdout
             /\ pc' = OnError(r.ok, "parse_snaps")
    /\ exit_code' = ExitCode(pc', exit_code)
    /\ UNCHANGED <<args, today, datasets, i, dry_run, cutoff_date,
                   snap_list, old_snaps, j>>

\* get_all_snaps, lines 65-69, and the assignment of line 177
ParseSnaps ==
    /\ pc = "parse_snaps"
    /\ snap_list' = parsed_snaps(snapshot_names)
    /\ pc' = StepAfter("get_all_snaps")
    /\ UNCHANGED <<exit_code, args, today, host, calls, datasets, i, dry_run,
                   cutoff_date, snapshot_names, old_snaps, j>>

\* main, line 178
FilterOlderSnaps ==
    /\ pc = "filter_older_snaps"
    /\ old_snaps' = filter_older_snaps(snap_list, cutoff_date)
    /\ pc' = StepAfter("filter_older_snaps")
    /\ UNCHANGED <<exit_code, args, today, host, calls, datasets, i, dry_run,
                   cutoff_date, snapshot_names, snap_list, j>>

\* create_snap, called at line 179
CreateSnap ==
    /\ pc = "create_snap"
    /\ LET name == new_snap_name(loop_item(datasets, i), today)
       IN  \E res \in ToolAnswers(ZFS_TAKE_SNAP, name, host) :
             LET r == run_cmd(ZFS_TAKE_SNAP, name, dry_run, res)
             IN  /\ calls' = Append(calls, r)
                 /\ host' = HostAfter(r, host)
                 /\ pc' = OnError(r.ok, StepAfter("create_snap"))
    /\ exit_code' = ExitCode(pc', exit_code)
    /\ j' = 1
    /\ UNCHANGED <<args, today, datasets, i, dry_run, cutoff_date,
                   snapshot_names, snap_list, old_snaps>>

\* remove_snaps walking its input from the newest to the oldest
remove_target_reversed(snaps, k) == snaps[Len(snaps) + 1 - k][2]

\* for snap in snap_list (line 78): snap[1] of turn k
remove_target(snaps, k) == snaps[k][2]

\* remove_snaps, one turn of its loop (called at line 186)
RemoveSnaps ==
    /\ pc = "remove_snaps"
    /\ j <= Len(old_snaps)
    /\ \E res \in ToolAnswers(ZFS_DESTROY, remove_target(old_snaps, j), host) :
         LET r == run_cmd(ZFS_DESTROY, remove_target(old_snaps, j), dry_run, res)
         IN  /\ calls' = Append(calls, r)
             /\ host' = HostAfter(r, host)
             /\ pc' = OnError(r.ok, "remove_snaps")
    /\ j' = IF pc' = "remove_snaps" THEN j + 1 ELSE j
    /\ exit_code' = ExitCode(pc', exit_code)
    /\ UNCHANGED <<args, today, datasets, i, dry_run, cutoff_date,
                   snapshot_names, snap_list, old_snaps>>

\* main, lines 180-188: old_snaps is empty, or remove_snaps has returned
RemoveDone ==
    /\ pc = "remove_snaps"
    /\ j > Len(old_snaps)
    /\ pc' = StepAfter("remove_snaps")
    /\ UNCHANGED <<exit_code, args, today, host, calls, datasets, i, dry_run,
                   cutoff_date, snapshot_names, snap_list, old_snaps, j>>

\* main, line 176: the next dataset, or the normal end of main
NextDataset ==
    /\ pc = "next_dataset"
    /\ pc' = IF i < Len(datasets) THEN LoopBody[1] ELSE "exit"
    /\ i' = IF i < Len(datasets) THEN i + 1 ELSE i
    /\ exit_code' = 0
    /\ j' = 1
    /\ UNCHANGED <<args, today, host, calls, datasets, dry_run, cutoff_date,
                   snapshot_names, snap_list, old_snaps>>

Next ==
    \/ HasZfs
    \/ ParseArgs
    \/ HasDataset
    \/ Setup
    \/ GetAllSnaps
    \/ ParseSnaps
    \/ FilterOlderSnaps
    \/ CreateSnap
    \/ RemoveSnaps
    \/ RemoveDone
    \/ NextDataset

Spec == Init /\ [][Next]_vars

\* the runs over a host where every requested dataset holds one snapshot,
\* of the greatest age
InitFair ==
    /\ pc = "has_zfs"
    /\ exit_code = 0
    /\ today = Date(2026, 3, 1)
    /\ args \in [datasets : ArgLists, retention_days : RetentionSet, dry_run : BOOLEAN]
    /\ calls = <<>>
    /\ InitLocals
    /\ host = {strip(args.datasets[k]) \o <<"@">> \o isoformat(DaysAgo(today, MaxAge)) :
                  k \in {n \in 1..Len(args.datasets) : strip(args.datasets[n]) # <<>>}}

\* main runs on as long as it has a statement to execute: every call of the
\* external tool returns
SpecFair == InitFair /\ [][Next]_vars /\ WF_vars(Next)

(***************************************************************************)
(* The pure functions on their own: inputs drawn in the initial state      *)
(***************************************************************************)
\* dates around the values of today
DatePool == {DaysAgo(t, k) : t \in TodaySet, k \in 0..MaxAge}

\* well-formed lines (two of them share a date), and malformed ones: a
\* name without a date, a name without "@", a second "@", a date that does
\* not exist
LinePool ==
    {<<"a", "@">> \o isoformat(DaysAgo(Date(2026, 3, 1), k)) : k \in 0..2}
    \cup {<<"b", "@">> \o isoformat(Date(2026, 3, 1)),
          <<"a", "@", "x">>,
          <<"a">>,
          <<"a", "@", "@">> \o isoformat(Date(2026, 3, 1)),
          <<"a", "@", "2", "0", "2", "6", "-", "0", "2", "-", "2", "9">>}

SeqsUpTo(S, n) == UNION {[1..m -> S] : m \in 0..n}

\* snapshots as the inventory holds them
SnapPool == {<<DaysAgo(Date(2026, 3, 1), k), <<"a", "@">> \o isoformat(DaysAgo(Date(2026, 3, 1), k))>> : k \in 0..MaxAge}

InitFixed ==
    /\ exit_code = 0
    /\ today = Date(2026, 3, 1)
    /\ args = [datasets |-> <<<<"a">>>>, retention_days |-> 0, dry_run |-> FALSE]
    /\ host = {}
    /\ calls = <<>>
    /\ datasets = <<<<"a">>>>
    /\ i = 1
    /\ dry_run = FALSE
    /\ j = 1

\* filter_older_snaps on any sequence of snapshots and any cutoff
InitFilter ==
    /\ pc = "filter_older_snaps"
    /\ InitFixed
    /\ snapshot_names = <<>>
    /\ snap_list \in SeqsUpTo(SnapPool, MaxLines)
    /\ cutoff_date \in {DaysAgo(Date(2026, 3, 1), k) : k \in 0..MaxAge}
    /\ old_snaps = <<>>

NextFilter == FilterOlderSnaps

SpecFilter == InitFilter /\ [][NextFilter]_vars

\* the parsing half of get_all_snaps on any lines
InitListing ==
    /\ pc = "parse_snaps"
    /\ InitFixed
    /\ snapshot_names \in SeqsUpTo(LinePool, MaxLines)
    /\ snap_list = <<>>
    /\ cutoff_date = today
    /\ old_snaps = <<>>

NextListing == ParseSnaps

SpecListing == InitListing /\ [][NextListing]_vars

\* dates at the ends of months and years, in leap years, with short years
\* and at both ends of the calendar
CodecDays == {Date(2026, 3, 1), Date(2024, 3, 2), Date(2000, 1, 2), Date(1000, 1, 2),
              Date(1, 1, 4), Date(9999, 12, 31)}

\* the days up to MaxAge before them, date.min being the first day there is
CodecDates ==
    {fromordinal(n) : n \in {m \in {toordinal(t) - k : t \in CodecDays, k \in 0..MaxAge} :
                                m >= toordinal(Date(MINYEAR, 1, 1))}}

\* dataset names as create_snap can receive them: blanks around and inside
NamePool == {<<"a">>, <<" ", "b">>, <<"a", "b", " ">>, <<"a", " ", "b">>, <<"x", "-", "1">>}

\* create_snap on any dataset name and any value of today
InitCodec ==
    /\ pc = "create_snap"
    /\ exit_code = 0
    /\ today \in CodecDates
    /\ \E d \in NamePool :
         /\ datasets = <<d>>
         /\ args = [datasets |-> <<d>>, retention_days |-> 0, dry_run |-> FALSE]
    /\ dry_run \in BOOLEAN
    /\ host = {}
    /\ calls = <<>>
    /\ i = 1
    /\ j = 1
    /\ cutoff_date = today
    /\ snapshot_names = <<>>
    /\ snap_list = <<>>
    /\ old_snaps = <<>>

NextCodec == CreateSnap

SpecCodec == InitCodec /\ [][NextCodec]_vars

\* retention values around the ends of the ranges of date and timedelta
RetentionPool ==
    RetentionSet
    \cup {-FarRetention, FarRetention - 1, 1 - FarRetention,
          MAX_DELTA_DAYS, -MAX_DELTA_DAYS, MAX_DELTA_DAYS + 1, -(MAX_DELTA_DAYS + 1)}

\* get_cutoff_date on any retention value and any value of today
InitCutoff ==
    /\ pc = "setup"
    /\ exit_code = 0
    /\ today \in DatePool
    /\ args \in [datasets : {<<<<"a">>>>}, retention_days : RetentionPool, dry_run : BOOLEAN]
    /\ host = {}
    /\ calls = <<>>
    /\ datasets = <<<<"a">>>>
    /\ i = 1
    /\ j = 1
    /\ dry_run = FALSE
    /\ cutoff_date = today
    /\ snapshot_names = <<>>
    /\ snap_list = <<>>
    /\ old_snaps = <<>>

NextCutoff == Setup

SpecCutoff == InitCutoff /\ [][NextCutoff]_vars

(***************************************************************************)
(* Properties                                                              *)
(***************************************************************************)
Last(s) == s[Len(s)]

Mutating == {ZFS_TAKE_SNAP, ZFS_DESTROY}

Lifecycle == {ZFS_LS_SNAP, ZFS_TAKE_SNAP, ZFS_DESTROY}

\* the positions of calls where cmd was issued
Issued(cmd) == {k \in 1..Len(calls) : calls[k].cmd = cmd}

\* C1: in every step that issues a create, the call before it is the
\* successful listing of the same dataset and old_snaps already holds the
\* older-than-cutoff subset of that listing; in every step that issues a
\* destroy, the call before it is the successful create of the same dataset
\* or an earlier destroy of that dataset.
C1_ListCreateDestroy ==
    [][calls' # calls =>
        LET e == Last(calls')
        IN  /\ e.cmd = ZFS_TAKE_SNAP =>
                 /\ calls # <<>>
                 /\ Last(calls).cmd = ZFS_LS_SNAP
                 /\ Last(calls).ok
                 /\ Last(calls).target = DatasetOf(e.target)
                 /\ old_snaps = filter_older_snaps(parsed_snaps(Last(calls).stdout), cutoff_date)
                 /\ old_snaps' = old_snaps
            /\ e.cmd = ZFS_DESTROY =>
                 /\ calls # <<>>
                 /\ Last(calls).cmd \in Mutating
                 /\ Last(calls).ok
                 /\ DatasetOf(Last(calls).target) = DatasetOf(e.target)
                 /\ \E k \in Issued(ZFS_TAKE_SNAP) : \A m \in (k + 1)..Len(calls) :
                        calls[m].cmd = ZFS_DESTROY
    ]_vars

\* a run that listed, created and destroyed for two datasets and ended normally
C1_Witness ==
    /\ pc = "exit"
    /\ exit_code = 0
    /\ Len(datasets) = 2
    /\ \A n \in 1..2 : \E k \in Issued(ZFS_DESTROY) : DatasetOf(calls[k].target) = datasets[n]

\* C2: no destroy command of a run targets <dataset>@<today>, for any
\* requested dataset, whatever the retention value and the listing.
C2_NewSnapNeverDestroyed ==
    \A k \in Issued(ZFS_DESTROY) : \A n \in 1..Len(args.datasets) :
        calls[k].target # strip(args.datasets[n]) \o <<"@">> \o isoformat(today)

\* the listing already held today's snapshot, the create succeeded and a
\* destroy was issued afterwards, under a negative retention value
C2_Witness ==
    /\ args.retention_days < 0
    /\ \E l \in Issued(ZFS_LS_SNAP), c \in Issued(ZFS_TAKE_SNAP), d \in Issued(ZFS_DESTROY) :
         /\ l < c /\ c < d
         /\ calls[c].ok
         /\ \E n \in 1..Len(calls[l].stdout) : calls[l].stdout[n] = calls[c].target

\* C3: a create or destroy call is issued only after a successful, really
\* invoked existence query for every requested dataset; once an existence
\* query has failed the run has ended with a non-zero exit and without any
\* create or destroy call.
C3_PreflightGate ==
    /\ \A k \in Issued(ZFS_TAKE_SNAP) \cup Issued(ZFS_DESTROY) :
         \A n \in 1..Len(args.datasets) : \E m \in 1..(k - 1) :
             /\ calls[m].cmd = ZFS_GET_DATASET
             /\ calls[m].target = strip(args.datasets[n])
             /\ calls[m].invoked
             /\ calls[m].ok
    /\ (\E m \in Issued(ZFS_GET_DATASET) : ~calls[m].ok) =>
         /\ pc = "exit"
         /\ exit_code # 0
         /\ Issued(ZFS_TAKE_SNAP) \cup Issued(ZFS_DESTROY) = {}

\* the existence query of the second dataset failed
C3_Witness ==
    /\ pc = "exit"
    /\ Len(calls) = 3
    /\ calls[2].cmd = ZFS_GET_DATASET /\ calls[2].ok
    /\ calls[3].cmd = ZFS_GET_DATASET /\ ~calls[3].ok

\* the lines of the successful listings of dataset d in this run
ListedLines(d) ==
    UNION {{calls[k].stdout[n] : n \in 1..Len(calls[k].stdout)} :
             k \in {m \in Issued(ZFS_LS_SNAP) : calls[m].target = d /\ calls[m].ok}}

\* C4: when a non-dry-run run ends normally, the host holds <dataset>@<today>
\* for every dataset, no listed snapshot dated before the cutoff is left on
\* the host, and every listed snapshot dated on or after the cutoff is.
C4_PrunedAtExit ==
    (pc = "exit" /\ exit_code = 0 /\ ~args.dry_run) =>
        \A n \in 1..Len(datasets) :
            /\ datasets[n] \o <<"@">> \o isoformat(today) \in host
            /\ \A l \in ListedLines(datasets[n]) :
                 LET p == parse_snap_name(l)
                 IN  p # None =>
                       IF toordinal(p[1]) < toordinal(today) - abs(args.retention_days)
                       THEN l \notin host
                       ELSE l \in host

\* C5: a run_cmd call made with dry_run true is not invoked and returns
\* success with an empty stdout, and no step of a run with the dry-run flag
\* changes the snapshots of the host.
C5_DryRunFrame ==
    [][args.dry_run =>
        /\ host' = host
        /\ (calls' # calls /\ Last(calls').cmd \in Lifecycle) =>
             /\ ~Last(calls').invoked
             /\ Last(calls').ok
             /\ Last(calls').stdout = <<>>
    ]_vars

\* a dry run over a host with snapshots that ended normally after a create call
C5_Witness ==
    /\ args.dry_run
    /\ pc = "exit"
    /\ exit_code = 0
    /\ host # {}
    /\ Issued(ZFS_TAKE_SNAP) # {}

\* C6 as claimed: in a run with the dry-run flag no call at all is invoked.
C6_NothingInvoked ==
    args.dry_run => \A k \in 1..Len(calls) : ~calls[k].invoked

\* C6 amended: in a run with the dry-run flag no list, create or destroy
\* command is invoked; the tool probe and the existence queries are.
C6_OnlyPreflightInvoked ==
    args.dry_run =>
        \A k \in 1..Len(calls) :
            calls[k].invoked <=> calls[k].cmd \in {ZFS_VERSION, ZFS_GET_DATASET}

\* a dry run that went through the preflight and the lifecycle of a dataset
C6_Witness ==
    /\ args.dry_run
    /\ pc = "exit"
    /\ exit_code = 0
    /\ Issued(ZFS_GET_DATASET) # {}
    /\ Issued(ZFS_LS_SNAP) # {}

EmptyName == \E n \in 1..Len(args.datasets) : strip(args.datasets[n]) = <<>>

\* C7 as claimed: with an empty dataset name the run ends with a non-zero
\* exit and no command at all has been invoked.
C7_NoCommandAtAll ==
    (EmptyName /\ pc = "exit") => (exit_code # 0 /\ calls = <<>>)

\* C7 amended: with an empty dataset name only the tool probe is ever
\* invoked, and the run ends with a non-zero exit.
C7_OnlyProbe ==
    EmptyName =>
        /\ \A k \in 1..Len(calls) : calls[k].cmd = ZFS_VERSION
        /\ Len(calls) <= 1
        /\ pc \in {"has_zfs", "parse_args", "exit"}
        /\ pc = "exit" => exit_code # 0

\* the probe succeeded and the run was rejected for a name that is blank,
\* in second position
C7_Witness ==
    /\ pc = "exit"
    /\ Len(args.datasets) = 2
    /\ args.datasets[1] = <<"a">>
    /\ args.datasets[2] = <<" ">>
    /\ Len(calls) = 1
    /\ calls[1].ok

\* C8: in a non-dry-run run a failed invocation is the last call of the
\* run: the step that records it ends the run with a non-zero exit, and no
\* step after it adds a call.
C8_FailStop ==
    [][~args.dry_run =>
        /\ (calls' # <<>> /\ ~Last(calls').ok) => (pc' = "exit" /\ exit_code' # 0)
        /\ \A k \in 1..Len(calls) : calls[k].ok
        /\ \A k \in 1..Len(calls) : calls'[k] = calls[k]
    ]_vars

\* the listing of the second dataset failed after the first dataset was done
C8_Witness ==
    /\ ~args.dry_run
    /\ pc = "exit"
    /\ exit_code # 0
    /\ Last(calls).cmd = ZFS_LS_SNAP
    /\ ~Last(calls).ok
    /\ Issued(ZFS_TAKE_SNAP) # {}

\* the positions of s dated strictly before cutoff
OlderAt(s, cutoff) == {k \in 1..Len(s) : toordinal(s[k][1]) < toordinal(cutoff)}

\* the n-th smallest element of the set of numbers S
Nth(S, n) == CHOOSE x \in S : Cardinality({y \in S : y < x}) = n - 1

\* C9: the result of filter_older_snaps is the input restricted to the
\* positions dated strictly before the cutoff, in input order and with
\* multiplicity; no element of the result is dated on the cutoff.
C9_FilterExact ==
    pc = StepAfter("filter_older_snaps") =>
        /\ Len(old_snaps) = Cardinality(OlderAt(snap_list, cutoff_date))
        /\ \A n \in 1..Len(old_snaps) :
               old_snaps[n] = snap_list[Nth(OlderAt(snap_list, cutoff_date), n)]
        /\ \A n \in 1..Len(old_snaps) : old_snaps[n][1] # cutoff_date

\* an input with a duplicate, an element on the cutoff and one after one before
C9_Witness ==
    /\ pc = StepAfter("filter_older_snaps")
    /\ Len(snap_list) = 3
    /\ snap_list[1][1] = cutoff_date
    /\ snap_list[2] = snap_list[3]
    /\ Len(old_snaps) = 2

\* the date a line carries when it is d@YYYY-MM-DD, as a set of 0 or 1 dates
LineDate(l) ==
    {d \in DatePool : \E k \in 1..Len(l) :
        /\ l[k] = "@"
        /\ \A h \in 1..(k - 1) : l[h] # "@"
        /\ SubSeq(l, k + 1, Len(l)) = isoformat(d)}

\* the number of positions of s holding x
Count(s, x) == Cardinality({k \in 1..Len(s) : s[k] = x})

\* C10: the result of get_all_snaps is ascending by date, then identifier;
\* it holds the pair (date, line) once for each occurrence of a well-formed
\* line and holds nothing else.
C10_ListingSortedExact ==
    pc = StepAfter("get_all_snaps") =>
        /\ \A n \in 1..(Len(snap_list) - 1) :
               \/ toordinal(snap_list[n][1]) < toordinal(snap_list[n + 1][1])
               \/ /\ snap_list[n][1] = snap_list[n + 1][1]
                  /\ (snap_list[n][2] = snap_list[n + 1][2]
                      \/ StrLT(snap_list[n][2], snap_list[n + 1][2]))
        /\ \A l \in LinePool : \A d \in LineDate(l) :
               Count(snap_list, <<d, l>>) = Count(snapshot_names, l)
        /\ \A n \in 1..Len(snap_list) :
               /\ snap_list[n][1] \in LineDate(snap_list[n][2])
               /\ Count(snapshot_names, snap_list[n][2]) > 0
        /\ Len(snap_list) =
               Cardinality({k \in 1..Len(snapshot_names) : LineDate(snapshot_names[k]) # {}})

\* unsorted lines with a tie on the date and a malformed line in between
C10_Witness ==
    /\ pc = StepAfter("get_all_snaps")
    /\ Len(snapshot_names) = 3
    /\ snapshot_names[1] = <<"b", "@">> \o isoformat(Date(2026, 3, 1))
    /\ LineDate(snapshot_names[2]) = {}
    /\ snapshot_names[3] = <<"a", "@">> \o isoformat(Date(2026, 3, 1))
    /\ Len(snap_list) = 2
    /\ snap_list[1][2] = snapshot_names[3]

\* C11: once create_snap has issued its command, parse_snap_name of the
\* identifier it built is the pair create_snap returns, which is today and
\* the stripped dataset name, "@" and today as YYYY-MM-DD.
C11_RoundTrip ==
    Issued(ZFS_TAKE_SNAP) # {} =>
        /\ parse_snap_name(Last(calls).target) = create_snap_result(datasets[1], today)
        /\ parse_snap_name(Last(calls).target) = <<today, Last(calls).target>>
        /\ create_snap_result(datasets[1], today)[1] = today
        /\ DatasetOf(Last(calls).target) = strip(datasets[1])
        /\ Len(Last(calls).target) = Len(strip(datasets[1])) + 11

\* a snapshot of a name with blanks around it, taken on a leap day
C11_Witness ==
    /\ Issued(ZFS_TAKE_SNAP) # {}
    /\ Last(calls).ok
    /\ datasets[1] = <<"a", "b", " ">>
    /\ today = Date(2024, 2, 29)
    /\ Last(calls).target \in host

\* the position of the last create call in cs, 0 when there is none
LastCreate(cs) ==
    IF \E k \in 1..Len(cs) : cs[k].cmd = ZFS_TAKE_SNAP
    THEN CHOOSE k \in 1..Len(cs) :
             cs[k].cmd = ZFS_TAKE_SNAP /\ \A m \in (k + 1)..Len(cs) : cs[m].cmd # ZFS_TAKE_SNAP
    ELSE 0

\* the calls made after the last create call
SinceCreate(cs) == SubSeq(cs, LastCreate(cs) + 1, Len(cs))

\* main is in remove_snaps, has just left it, or the run ended there
InRemove ==
    \/ pc \in {"remove_snaps", "next_dataset"}
    \/ pc = "exit" /\ calls # <<>> /\ Last(calls).cmd \in Mutating

\* the destroy calls of the current remove_snaps are one per snapshot of
\* old_snaps from its first element on, oldest first; only the last one can
\* have failed, and then the run has ended with a non-zero exit; when
\* remove_snaps has returned every snapshot of old_snaps was attempted
RemovePrefix ==
    InRemove =>
        LET ds == SinceCreate(calls)
            n == Len(ds)
        IN  /\ n <= Len(old_snaps)
            /\ \A k \in 1..n : ds[k].cmd = ZFS_DESTROY /\ ds[k].target = old_snaps[k][2]
            /\ \A k \in 1..(n - 1) :
                   /\ ds[k].ok
                   /\ toordinal(old_snaps[k][1]) <= toordinal(old_snaps[k + 1][1])
            /\ pc = "remove_snaps" => (n = j - 1 /\ \A k \in 1..n : ds[k].ok)
            /\ (pc = "next_dataset" \/ (pc = "exit" /\ exit_code = 0)) =>
                   (n = Len(old_snaps) /\ \A k \in 1..n : ds[k].ok)
            /\ (n > 0 /\ ~ds[n].ok) => (pc = "exit" /\ exit_code # 0)

\* C12: remove_snaps issues one destroy per snapshot of its input, in input
\* order; the first failed destroy ends the run, so the snapshots after it
\* are never attempted; a step of remove_snaps issues nothing but a destroy
\* and adds no snapshot to the host, and a snapshot that a destroy took off
\* the host is not put back by any later step.
C12_RemoveInOrder ==
    [][/\ RemovePrefix'
       /\ pc = "remove_snaps" =>
            /\ host' \subseteq host
            /\ calls' # calls => (Len(calls') = Len(calls) + 1 /\ Last(calls').cmd = ZFS_DESTROY)
       /\ \A k \in Issued(ZFS_DESTROY) :
            (calls[k].ok /\ calls[k].target \notin host) => calls[k].target \notin host'
    ]_vars

\* the first of two destroys succeeded and the second failed
C12_Witness ==
    /\ pc = "exit"
    /\ exit_code # 0
    /\ Len(old_snaps) = 2
    /\ Len(SinceCreate(calls)) = 2
    /\ SinceCreate(calls)[1].ok
    /\ SinceCreate(calls)[1].invoked
    /\ ~SinceCreate(calls)[2].ok

\* C13: when the tool probe has failed the run has ended with a non-zero
\* exit, the probe is the only call ever made and no dataset was taken up.
C13_ProbeFailureStops ==
    (calls # <<>> /\ calls[1].cmd = ZFS_VERSION /\ ~calls[1].ok) =>
        /\ pc = "exit"
        /\ exit_code # 0
        /\ Len(calls) = 1
        /\ \A cmd \in {ZFS_GET_DATASET, ZFS_LS_SNAP, ZFS_TAKE_SNAP, ZFS_DESTROY} : Issued(cmd) = {}
        /\ datasets = <<>>

\* the probe failed in a run asked for two existing datasets with snapshots
C13_Witness ==
    /\ pc = "exit"
    /\ calls # <<>>
    /\ ~calls[1].ok
    /\ Len(args.datasets) = 2
    /\ ~EmptyName
    /\ host # {}

\* the number of calls of cmd among the first p calls
CountUpTo(cmd, p) == Cardinality({q \in 1..p : calls[q].cmd = cmd})

\* the dataset a lifecycle call is about
CallDataset(c) == IF c.cmd = ZFS_LS_SNAP THEN c.target ELSE DatasetOf(c.target)

\* C14: the m-th existence query is about the m-th supplied dataset and
\* every existence query precedes every lifecycle call; the lifecycle calls
\* come in one block per dataset, in the supplied order: a call made when n
\* listings have been issued is about the n-th supplied dataset.
C14_SuppliedOrder ==
    \A p \in 1..Len(calls) :
        /\ calls[p].cmd = ZFS_GET_DATASET =>
             /\ CountUpTo(ZFS_GET_DATASET, p) <= Len(args.datasets)
             /\ calls[p].target = strip(args.datasets[CountUpTo(ZFS_GET_DATASET, p)])
             /\ \A q \in 1..p : calls[q].cmd \notin Lifecycle
        /\ calls[p].cmd \in Lifecycle =>
             /\ CountUpTo(ZFS_LS_SNAP, p) \in 1..Len(args.datasets)
             /\ CallDataset(calls[p]) = strip(args.datasets[CountUpTo(ZFS_LS_SNAP, p)])

\* dataset b, given first, and then dataset a went through list, create and
\* destroy
C14_Witness ==
    /\ pc = "exit"
    /\ exit_code = 0
    /\ args.datasets = <<<<" ", "b">>, <<"a">>>>
    /\ \E p, q \in Issued(ZFS_DESTROY) :
         /\ p < q
         /\ DatasetOf(calls[p].target) = <<"b">>
         /\ DatasetOf(calls[q].target) = <<"a">>

\* the probe succeeded, no name is empty, every dataset passed its existence
\* query and was listed and snapshotted, and no call failed
AllSucceeded ==
    /\ calls # <<>>
    /\ calls[1].cmd = ZFS_VERSION
    /\ \A p \in 1..Len(calls) : calls[p].ok
    /\ ~EmptyName
    /\ \A n \in 1..Len(args.datasets) :
         \E p \in Issued(ZFS_GET_DATASET) : calls[p].target = strip(args.datasets[n])
    /\ Cardinality(Issued(ZFS_LS_SNAP)) = Len(args.datasets)
    /\ Cardinality(Issued(ZFS_TAKE_SNAP)) = Len(args.datasets)

ListingAfter(p) ==
    IF \E q \in (p + 1)..Len(calls) : calls[q].cmd = ZFS_LS_SNAP
    THEN CHOOSE q \in (p + 1)..Len(calls) :
             calls[q].cmd = ZFS_LS_SNAP /\ \A m \in (p + 1)..(q - 1) : calls[m].cmd # ZFS_LS_SNAP
    ELSE Len(calls) + 1

\* the destroy calls of the dataset listed at p
DestroysOf(p) == {q \in (p + 1)..(ListingAfter(p) - 1) : calls[q].cmd = ZFS_DESTROY}

\* the lines of the listing p that carry a date, and one before today
\* minus the magnitude of the retention
Eligible(p) ==
    {calls[p].stdout[n] : n \in {m \in 1..Len(calls[p].stdout) :
        \E d \in LineDate(calls[p].stdout[m]) :
            toordinal(d) < toordinal(today) - abs(args.retention_days)}}

\* the loop body of the dataset listed at p has run to its end
LifecycleDone(p) ==
    \/ ListingAfter(p) <= Len(calls)
    \/ pc \in {"next_dataset", "get_all_snaps"}
    \/ pc = "exit" /\ exit_code = 0

\* C16: for every dataset processed, a destroy is only ever issued for a
\* line of that dataset's listing that parses and is dated strictly before
\* the cutoff, at most once each; when the dataset's loop body has run to
\* its end the set of destroy targets is exactly that set, and today's
\* snapshot was created before them, also when the set is empty, in which
\* case no destroy was issued.
C16_DestroySetExact ==
    \A p \in Issued(ZFS_LS_SNAP) :
        /\ \A q \in DestroysOf(p) : calls[q].target \in Eligible(p)
        /\ \A q, r \in DestroysOf(p) : calls[q].target = calls[r].target => q = r
        /\ LifecycleDone(p) =>
              /\ {calls[q].target : q \in DestroysOf(p)} = Eligible(p)
              /\ \E c \in (p + 1)..(ListingAfter(p) - 1) :
                     /\ calls[c].cmd = ZFS_TAKE_SNAP
                     /\ calls[c].target = calls[p].target \o <<"@">> \o isoformat(today)
                     /\ \A q \in DestroysOf(p) : c < q
              /\ Eligible(p) = {} => DestroysOf(p) = {}

\* a run of two datasets that ended normally: the first listing held a name
\* without a date and the second a snapshot dated on the cutoff, each next
\* to one old snapshot, and only the two old ones were destroy targets
C16_Witness ==
    /\ pc = "exit"
    /\ exit_code = 0
    /\ ~args.dry_run
    /\ Cardinality(Issued(ZFS_DESTROY)) = 2
    /\ \E p, q \in Issued(ZFS_LS_SNAP) :
         /\ p < q
         /\ Eligible(p) # {}
         /\ Eligible(q) # {}
         /\ \E n \in 1..Len(calls[p].stdout) : LineDate(calls[p].stdout[n]) = {}
         /\ \E n \in 1..Len(calls[q].stdout) : LineDate(calls[q].stdout[n]) = {cutoff_date}

\* the date suffix of a snapshot identifier: its last ten characters
Suffix(t) == SubSeq(t, Len(t) - 9, Len(t))

\* C17: no step changes today; every create command issued so far, for
\* whatever dataset, ends in today as YYYY-MM-DD; the create command of a
\* step targets the stripped dataset name, "@" and today, and create_snap
\* returns today paired with that identifier; the cutoff that main computes
\* is today minus the magnitude of the retention, and it is not changed
\* afterwards.
C17_TodayFixed ==
    [][/\ today' = today
       /\ \A c \in 1..Len(calls') :
            calls'[c].cmd = ZFS_TAKE_SNAP => Suffix(calls'[c].target) = isoformat(today)
       /\ (pc = "create_snap" /\ calls' # calls) =>
            /\ Last(calls').target = strip(args.datasets[i]) \o <<"@">> \o isoformat(today)
            /\ create_snap_result(loop_item(datasets, i), today) = <<today, Last(calls').target>>
       /\ (pc = "setup" /\ pc' # "exit") =>
            toordinal(cutoff_date') = toordinal(today) - abs(args.retention_days)
       /\ pc \notin {"has_zfs", "parse_args", "has_dataset", "setup"} => cutoff_date' = cutoff_date
    ]_vars

\* two datasets with different names were snapshotted in one run, with a
\* cutoff before today
C17_Witness ==
    /\ pc = "exit"
    /\ exit_code = 0
    /\ Cardinality(Issued(ZFS_TAKE_SNAP)) = 2
    /\ \E c, d \in Issued(ZFS_TAKE_SNAP) :
         /\ DatasetOf(calls[c].target) # DatasetOf(calls[d].target)
         /\ Suffix(calls[c].target) = Suffix(calls[d].target)
    /\ cutoff_date # today

\* C18: get_cutoff_date(n) returns, for every integer n, the day |n| days
\* before today: the same day for n and -n, today for n = 0, and never a day
\* after today.
C18_CutoffForEveryN ==
    pc # "setup" =>
        /\ pc # "exit"
        /\ toordinal(cutoff_date) = toordinal(today) - abs(args.retention_days)
        /\ cutoff_date = get_cutoff_date(today, -args.retention_days)
        /\ args.retention_days = 0 => cutoff_date = today
        /\ ~DateLT(today, cutoff_date)

\* the number of positions of datasets that hold d
Requested(d) == Cardinality({n \in 1..Len(datasets) : datasets[n] = d})

====
